---------------------------- MODULE Spec2Model ----------------------------
(***************************************************************************)
(* Model of the OceanOptics spectrometer driver (OceanOptics/_base.py):    *)
(* the USB command/response protocol of OceanOpticsBase, its construction  *)
(* sequence and its public operations, run against a device that answers   *)
(* on bulk endpoints.  Every _usb_send and every _usb_read of the driver   *)
(* is one step of the model.                                               *)
(***************************************************************************)
EXTENDS Integers, Sequences, FiniteSets, TLC

(***************************************************************************)
(* Bounds of the exploration.                                              *)
(***************************************************************************)
\* transfers, in a row from power-up, that the device leaves unanswered
MaxBusy == 11
\* injected transport faults and corrupted responses per behaviour
MaxFaults == 1
\* public calls made on a Ready driver per behaviour
MaxCalls == 2

(***************************************************************************)
(* Program constants.                                                      *)
(***************************************************************************)
\* for i in range(10)
Retries == 10
\* if sync[0] != 0x69
SyncByte == 105
\* self._usb_speed == 0x80
HighSpeed == 128
\* self.integration_time(1000)
WarmupTime == 1000
CmdInitialize == 1
CmdSetIntegrationTime == 2
CmdQueryInformation == 5
CmdRequestSpectrum == 9
CmdQueryStatus == 254
\* struct '<HLBBBBBBBBBB' is 2 + 4 + 10 bytes
StatusSize == 16
\* endpoints of the model table (_OOModelConfig[model])
EPout == 1
EPin0 == 129
EPin1 == 130
EPin0_size == 64

Byte == 0..255
None == -1

(***************************************************************************)
(* struct.pack / struct.unpack, little-endian.                             *)
(***************************************************************************)
PackB(v) == <<v % 256>>
PackH(v) == <<v % 256, (v \div 256) % 256>>
PackI(v) == <<v % 256, (v \div 256) % 256, (v \div 65536) % 256,
              (v \div 16777216) % 256>>
\* unsigned 16 bit at 1-based offset k
UnpackH(b, k) == b[k] + 256 * b[k + 1]
\* 'h': signed 16 bit at 1-based offset k
UnpackhBigEndian(b, k) ==
    LET u == 256 * b[k] + b[k + 1] IN IF u >= 32768 THEN u - 65536 ELSE u
Unpackh(b, k) ==
    LET u == b[k] + 256 * b[k + 1] IN IF u >= 32768 THEN u - 65536 ELSE u
UnpackL(b, k) == b[k] + 256 * b[k + 1] + 65536 * b[k + 2] + 16777216 * b[k + 3]

RECURSIVE ConcatReversed(_)
ConcatReversed(ps) ==
    IF ps = <<>> THEN <<>> ELSE ConcatReversed(Tail(ps)) \o Head(ps)
RECURSIVE Concat(_)
\* sum(ret[1:], ret[0]): the packets joined in list order
Concat(ps) == IF ps = <<>> THEN <<>> ELSE Head(ps) \o Concat(Tail(ps))


(***************************************************************************)
(* The per-model tables of _defines (read-only inputs of the driver).      *)
(***************************************************************************)
Models == {"USB2000"}
\* _OOSpecConfig[model][usb_speed] = (packet_N, packet_size, packet_func):
\* a full-speed layout of two packets and a high-speed layout of one
SpecConfigSpeeds == {0, HighSpeed}
SpecConfig(speed) ==
    IF speed = HighSpeed
    THEN [packet_N |-> 1, packet_size |-> 4, packet_func |-> "ident"]
    ELSE [packet_N |-> 2, packet_size |-> 2, packet_func |-> "ident"]

(***************************************************************************)
(* The device.  It answers a command by queueing transfers on an input     *)
(* endpoint; a read takes the oldest transfer of the endpoint it names.    *)
(***************************************************************************)
\* pixel counts a device may report in its status
DevPixelCounts == {1, 2, 3}
\* usb_speed values a device may report (1 is absent from the layout table)
DevSpeeds == {0, 1, HighSpeed}
\* bytes per spectrum transfer the device sends
DevPacketSizes == {2, 4}
\* high byte of every sample of an acquired spectrum
Scenes == {0, 1, 255}
\* contents of the calibration memory
Images == {0, 1}
\* integration time the device holds at power-up, in microseconds
DevDefaultTime == 3000
\* how many devices with the ids of the model the bus may hold
DevPlugged == 0..2
\* default_timeout of the device object, in milliseconds
DefaultTimeout == 1000

VARIABLES
    plugged,     \* devices on the bus with the vendor and product ids
    devCfg,      \* what the device is: pixels, speed, pkt, image
    devBusy,     \* commands the device will still leave unanswered
    devIT,       \* integration time the device holds, microseconds
    epq,         \* per input endpoint, the transfers not yet read
    faults,      \* injected faults so far
    calls,       \* public calls made so far
    state,       \* life cycle of the driver object
    pc,          \* position of the running operation
    op,          \* the running (or last) top-level operation
    arg,         \* its argument
    i,           \* loop counter of the running retry loop / comprehension
    buf,         \* packets read so far by _request_spectrum
    self,        \* fields of the driver object
    result,      \* what the last operation returned
    err,         \* what the last operation raised
    sent,        \* commands written (attempted) by the running operation
    absorbed,    \* exceptions the running operation caught and did not re-raise
    lastExc,     \* the exception most recently raised inside the driver
    reads,       \* reads attempted by the running operation
    specEps,     \* endpoints named by the reads of _request_spectrum so far
    warned,      \* warnings.warn was called
    caller,      \* the caller whose operation the driver is running
    parked,      \* the position and locals of the other caller
    useMutex,    \* callers take one mutex around every operation
    bus,         \* utils: the supported devices usb.core.find lists, in order
    connected,   \* utils: devices a live spectrometer object is attached to
    held,        \* utils: devices whose objects the application holds
    opened,      \* utils: devices the running function constructed objects for
    disposed,    \* utils: devices whose objects the running function disposed
    spectrometers, \* utils: the keys of the dict of the running function
    selected,    \* utils: selected_spectro of get_spectrometer
    todo,        \* utils: objects a dispose loop has still to visit
    slept        \* the integration time and the wait of the last time.sleep

envVars == <<plugged, devCfg, devBusy, devIT, epq, faults>>
ctlVars == <<state, pc, i, err, result, absorbed, lastExc>>
callerVars == <<caller, parked, useMutex>>
utilVars ==
    <<bus, connected, held, opened, disposed, spectrometers, selected, todo>>
vars == <<plugged, devCfg, devBusy, devIT, epq, faults, calls, state, pc, op, arg, i,
          buf, self, result, err, sent, absorbed, lastExc, reads, specEps,
          warned, caller, parked, useMutex, bus, connected, held, opened,
          disposed, spectrometers, selected, todo, slept>>

\* the endpoint the device sends spectra on
DevSpecEP == IF devCfg.speed = HighSpeed THEN EPin1 ELSE EPin0

\* the 16 byte status record; usb_speed is the byte at offset 14
DevStatus ==
    PackH(devCfg.pixels) \o PackI(devIT)
        \o <<0, 0, 0, devCfg.pixels, 0, 0, 161, 162, devCfg.speed, 163>>

\* text of the calibration memory at an address: two decimal digits
DevInfoText(address) == <<48 + devCfg.image, 48 + (address % 3)>>

\* the answer to QueryInformation; v names how the answer is damaged
DevInfo(address, v) ==
    CASE v = "ok"        -> <<CmdQueryInformation, address>>
                               \o DevInfoText(address) \o <<0, 55, 0>>
      [] v = "badecho"   -> <<CmdQueryInformation + 1, address>>
                               \o DevInfoText(address) \o <<0, 55, 0>>
      [] v = "badaddr"   -> <<CmdQueryInformation, (address + 1) % 256>>
                               \o DevInfoText(address) \o <<0, 55, 0>>
      [] v = "noterm"    -> <<CmdQueryInformation, address>>
                               \o DevInfoText(address)
      [] v = "nonnum"    -> <<CmdQueryInformation, address, 65, 0, 55, 0>>
      [] v = "notext"    -> <<CmdQueryInformation, address, 0, 55, 0>>
      [] v = "onebyte"   -> <<CmdQueryInformation>>
      [] v = "empty"     -> <<>>

\* sample p of a spectrum: low byte p, high byte the scene
DevSampleBytes(scene) ==
    Concat([p \in 1..devCfg.pixels |-> <<p, scene>>])

RECURSIVE Chunks(_, _)
\* a byte string cut into transfers of at most n bytes
Chunks(b, n) ==
    IF Len(b) <= n THEN (IF b = <<>> THEN <<>> ELSE <<b>>)
    ELSE <<SubSeq(b, 1, n)>> \o Chunks(SubSeq(b, n + 1, Len(b)), n)

\* the answer to RequestSpectrum: the packets, then the sync byte
DevSpectrum(scene, sync) ==
    Chunks(DevSampleBytes(scene), devCfg.pkt) \o <<<<sync>>>>

Push(ep, transfers) == [epq EXCEPT ![ep] = @ \o transfers]

\* the device receives a command the host wrote
DevReceive(data) ==
    IF devBusy > 0
    THEN /\ devBusy' = devBusy - 1
         /\ UNCHANGED <<plugged, devCfg, devIT, epq, faults>>
    ELSE
      /\ UNCHANGED <<plugged, devCfg, devBusy>>
      /\ CASE data[1] = CmdSetIntegrationTime ->
                /\ \E accept \in BOOLEAN :
                      devIT' = IF accept THEN UnpackL(data, 2) ELSE devIT
                /\ UNCHANGED <<epq, faults>>
           [] data[1] = CmdQueryStatus ->
                /\ \E short \in BOOLEAN :
                     /\ short => faults < MaxFaults
                     /\ faults' = faults + (IF short THEN 1 ELSE 0)
                     /\ epq' = Push(EPin0,
                           <<IF short THEN SubSeq(DevStatus, 1, StatusSize - 1)
                                      ELSE DevStatus>>)
                /\ UNCHANGED devIT
           [] data[1] = CmdQueryInformation ->
                /\ \E v \in {"ok", "badecho", "badaddr", "noterm", "nonnum",
                             "notext", "onebyte", "empty"} :
                     /\ v # "ok" => faults < MaxFaults
                     /\ faults' = faults + (IF v = "ok" THEN 0 ELSE 1)
                     /\ epq' = Push(EPin0, <<DevInfo(data[2], v)>>)
                /\ UNCHANGED devIT
           [] data[1] = CmdRequestSpectrum ->
                /\ \E scene \in Scenes, badsync \in BOOLEAN :
                     /\ badsync => faults < MaxFaults
                     /\ faults' = faults + (IF badsync THEN 1 ELSE 0)
                     /\ epq' = Push(DevSpecEP,
                           DevSpectrum(scene, IF badsync THEN 0 ELSE SyncByte))
                /\ UNCHANGED devIT
           [] OTHER -> UNCHANGED <<devIT, epq, faults>>


(***************************************************************************)
(* The driver object.                                                      *)
(***************************************************************************)
NoError == "none"
NoResult == [kind |-> "none"]
\* a duration: n seconds, or n * 1e-6 seconds when micro
Seconds(n) == [n |-> n, micro |-> FALSE]
MicroSecondsUnscaled(n) == [n |-> n, micro |-> FALSE]
MicroSeconds(n) == [n |-> n, micro |-> TRUE]

Unset ==
    [dev |-> None, USBTIMEOUT |-> None, usb_speed |-> None, integration_time |-> Seconds(None), pixels |-> None,
     EPspec |-> None, packet_N |-> None, packet_size |-> None,
     packet_func |-> "unset", wl_factors |-> <<>>, nl_factors |-> <<>>,
     wl |-> <<>>]

\* the position and locals of a caller that is not inside the driver
Outside ==
    [pc |-> "idle", op |-> "none", arg |-> None, i |-> 0, buf |-> <<>>,
     result |-> NoResult, err |-> NoError, sent |-> <<>>, absorbed |-> <<>>,
     lastExc |-> NoError, reads |-> <<>>]

\* no acquisition has waited yet
NoSleep == [used |-> Seconds(None), wait |-> [n |-> None, per |-> 1]]
\* max(self._integration_time - self._USBTIMEOUT, 0) as n / per seconds,
\* where the timeout is default_timeout * 1e-3 seconds and the integration
\* time is n seconds, or n * 1e-6 seconds when micro
Wait(integration_time, timeout_ms) ==
    LET d == IF integration_time.micro
             THEN integration_time.n - 1000 * timeout_ms
             ELSE 1000 * integration_time.n - timeout_ms
    IN [n |-> IF d > 0 THEN d ELSE 0,
        per |-> IF integration_time.micro THEN 1000000 ELSE 1000]

\* the functions of utils are not in use
NoUtils ==
    /\ bus = <<>>
    /\ connected = {}
    /\ held = {}
    /\ opened = {}
    /\ disposed = {}
    /\ spectrometers = {}
    /\ selected = None
    /\ todo = {}

Init ==
    /\ plugged \in DevPlugged
    /\ devCfg \in [pixels : DevPixelCounts, speed : DevSpeeds,
                   pkt : DevPacketSizes, image : Images]
    /\ devBusy \in 0..MaxBusy
    /\ devIT = DevDefaultTime
    /\ epq = [ep \in {EPin0, EPin1} |-> <<>>]
    /\ faults = 0
    /\ calls = 0
    /\ state = "Disconnected"
    /\ pc = "start"
    /\ op = "init"
    /\ arg = None
    /\ i = 0
    /\ buf = <<>>
    /\ self = Unset
    /\ result = NoResult
    /\ err = NoError
    /\ sent = <<>>
    /\ absorbed = <<>>
    /\ lastExc = NoError
    /\ reads = <<>>
    /\ specEps = {}
    /\ warned = FALSE
    /\ caller = 1
    /\ parked = Outside
    /\ useMutex = TRUE
    /\ NoUtils
    /\ slept = NoSleep

(***************************************************************************)
(* The transport: self._dev.write and self._dev.read.                      *)
(***************************************************************************)
\* _usb_send: the write succeeds and the device receives the command
UsbSendOk(data) == DevReceive(data)
\* _usb_send: the write raises usb.core.USBError
UsbSendFail ==
    /\ faults < MaxFaults
    /\ faults' = faults + 1
    /\ UNCHANGED <<plugged, devCfg, devBusy, devIT, epq>>

\* _usb_read returns the oldest transfer of the endpoint
UsbReadOkKeepsTransfer(epi, epi_size) ==
    /\ epq[epi] # <<>>
    /\ Len(Head(epq[epi])) <= epi_size
    /\ UNCHANGED envVars
UsbReadOk(epi, epi_size) ==
    /\ epq[epi] # <<>>
    /\ Len(Head(epq[epi])) <= epi_size
    /\ epq' = [epq EXCEPT ![epi] = Tail(@)]
    /\ UNCHANGED <<plugged, devCfg, devBusy, devIT, faults>>
\* _usb_read raises usb.core.USBError: nothing arrived in time, the
\* transfer is larger than the read, or the read failed on the bus
UsbReadFail(epi, epi_size) ==
    \/ /\ epq[epi] = <<>>
       /\ UNCHANGED envVars
    \/ /\ epq[epi] # <<>>
       /\ Len(Head(epq[epi])) > epi_size
       /\ epq' = [epq EXCEPT ![epi] = Tail(@)]
       /\ UNCHANGED <<plugged, devCfg, devBusy, devIT, faults>>
    \/ /\ epq[epi] # <<>>
       /\ faults < MaxFaults
       /\ faults' = faults + 1
       /\ UNCHANGED <<plugged, devCfg, devBusy, devIT, epq>>

(***************************************************************************)
(* Exceptions.  An exception raised at a step unwinds to the innermost     *)
(* try that encloses the step.                                             *)
(***************************************************************************)
\* _init_robust_status: except usb.core.USBError: pass
RobustStatusCatchesAll(e) == TRUE
RobustStatusCatches(e) == e = "USBError"
\* _init_robust_spectrum: except: raise
RobustSpectrumCatchesUSB(e) == e = "USBError"
RobustSpectrumCatches(e) == FALSE

\* _init_robust_status: for i in range(10) goes on with index n
StatusRangeOffByOne(n) == n <= Retries
StatusRange(n) == n < Retries
\* _init_robust_spectrum: for i in range(10) goes on with index n
SpectrumRange(n) == n < Retries

\* the step runs inside the try of _init_robust_status
InStatusLoop ==
    op = "init" /\ state = "Connected" /\ pc \in {"status_send", "status_read"}
\* the step runs inside the try of _init_robust_spectrum
InSpectrumLoop ==
    /\ op = "init" /\ state = "EndpointSelected"
    /\ pc \in {"spec_send", "spec_read", "sync_read"}

\* the exception leaves the running operation and reaches its caller
Propagate(e) ==
    /\ err' = e
    /\ result' = NoResult
    /\ IF op = "init"
       THEN state' = "Failed" /\ pc' = "done"
       ELSE state' = state /\ pc' = "idle"

\* exception e is raised at the current step
Throw(e) ==
    /\ lastExc' = e
    /\ IF InStatusLoop /\ RobustStatusCatches(e)
       THEN /\ absorbed' = Append(absorbed, [exc |-> e, site |-> "status"])
            /\ i' = i + 1
            /\ IF StatusRange(i + 1)
               THEN pc' = "status_send" /\ UNCHANGED <<state, err, result>>
               ELSE Propagate("OOError: Initialization USBCOM")
       ELSE IF InSpectrumLoop /\ RobustSpectrumCatches(e)
       THEN /\ absorbed' = Append(absorbed, [exc |-> e, site |-> "spectrum"])
            /\ i' = i + 1
            /\ IF SpectrumRange(i + 1)
               THEN pc' = "spec_send" /\ UNCHANGED <<state, err, result>>
               ELSE Propagate("OOError: Initialization SPECTRUM")
       ELSE /\ Propagate(e)
            /\ UNCHANGED <<absorbed, i>>

\* the step ends normally and the operation goes on at p
Goto(p) ==
    /\ pc' = p
    /\ UNCHANGED <<state, i, err, result, absorbed, lastExc>>

(***************************************************************************)
(* Construction: OceanOpticsBase.__init__.                                 *)
(***************************************************************************)
\* usb.core.find(find_all=True, ...) gives the list of the matching
\* devices; devices.pop(0) on it: the first device, or the exception of
\* popping from an empty list
PopFirst(n) == IF n = 0 THEN [exc |-> "IndexError"] ELSE [exc |-> NoError, dev |-> 1]
\* except AttributeError: raise _OOError('No OceanOptics ... found!')
NotFoundCatches(e) == e = "AttributeError"

\* OceanOpticsUSBComm._usb_init_connection
Connect ==
    /\ state = "Disconnected" /\ pc = "start"
    /\ \E model \in Models \cup {"unknown"}, configured \in BOOLEAN :
         /\ ~configured => faults < MaxFaults
         /\ IF model \notin Models
            THEN /\ Throw("OOError: Unkown model")
                 /\ UNCHANGED <<warned, faults, self>>
            ELSE LET popped == PopFirst(plugged) IN
              IF popped.exc # NoError
              THEN /\ IF NotFoundCatches(popped.exc)
                      THEN Throw("OOError: No spectrometer found")
                      ELSE Throw(popped.exc)
                   /\ UNCHANGED <<warned, faults, self>>
              ELSE \* else: if devices: warnings.warn(...)
                   /\ warned' = (plugged - 1 > 0)
                   \* self._dev.set_configuration(), self._USBTIMEOUT
                   /\ IF configured
                      THEN /\ self' = [self EXCEPT !.dev = popped.dev,
                                          !.USBTIMEOUT = DefaultTimeout]
                           /\ state' = "Connected"
                           /\ pc' = "initialize"
                           /\ UNCHANGED <<i, err, result, absorbed, lastExc,
                                          faults>>
                      ELSE /\ self' = [self EXCEPT !.dev = popped.dev]
                           /\ Throw("USBError")
                           /\ faults' = faults + 1
    /\ UNCHANGED <<plugged, devCfg, devBusy, devIT, epq, calls, op, arg, buf,
                   sent, reads, specEps>>
    /\ UNCHANGED <<callerVars, utilVars>>
    /\ UNCHANGED slept

\* _initialize: send command 0x01
Initialize ==
    /\ pc = "initialize"
    /\ LET data == PackB(CmdInitialize) IN
         /\ sent' = Append(sent, data)
         /\ \/ UsbSendOk(data) /\ pc' = "status_send" /\ i' = 0
               /\ UNCHANGED <<state, err, result, absorbed, lastExc>>
            \/ UsbSendFail /\ Throw("USBError")
    /\ UNCHANGED <<calls, op, arg, buf, self, reads, specEps, warned>>
    /\ UNCHANGED <<callerVars, utilVars>>
    /\ UNCHANGED slept

\* _query_status, first half: _usb_send(struct.pack('<B', 0xFE))
StatusSend ==
    /\ pc = "status_send"
    /\ LET data == PackB(CmdQueryStatus) IN
         /\ sent' = Append(sent, data)
         /\ \/ UsbSendOk(data) /\ Goto("status_read")
            \/ UsbSendFail /\ Throw("USBError")
    /\ UNCHANGED <<calls, op, arg, buf, self, reads, specEps, warned>>
    /\ UNCHANGED <<callerVars, utilVars>>
    /\ UNCHANGED slept

\* struct.unpack('<HLBBBBBBBBBB', ret[:]) and the dict built from it
StatusRecord(ret) ==
    [pixels |-> UnpackH(ret, 1),
     integration_time |-> UnpackL(ret, 3),
     lamp_enable |-> ret[7],
     trigger_mode |-> ret[8],
     acquisition_status |-> ret[9],
     packets_in_spectrum |-> ret[10],
     power_down |-> ret[11],
     packets_in_endpoint |-> ret[12],
     usb_speed |-> ret[15]]

\* what the caller of _query_status does with the status it got
StatusDone(status) ==
    IF op = "init" /\ state = "Connected"
    THEN \* __init__: status = self._init_robust_status() and the three fields
         /\ self' = [self EXCEPT !.usb_speed = status.usb_speed,
                        !.integration_time = Seconds(status.integration_time),
                        !.pixels = status.pixels]
         /\ state' = "StatusKnown"
         /\ pc' = "select_endpoint"
         /\ UNCHANGED <<i, err, result, absorbed, lastExc>>
    ELSE \* integration_time: the value times 1e-6 is stored and returned
         /\ self' = [self EXCEPT
                        !.integration_time = MicroSeconds(status.integration_time)]
         /\ IF op = "init"
            THEN pc' = "spec_send" /\ i' = 0 /\ UNCHANGED <<state, err, result>>
            ELSE /\ pc' = "idle"
                 /\ result' = [kind |-> "integration_time",
                               value |-> MicroSeconds(status.integration_time)]
                 /\ err' = NoError
                 /\ UNCHANGED <<state, i>>
         /\ UNCHANGED <<absorbed, lastExc>>

\* _query_status, second half: the read of _usb_query and the unpack
StatusRead ==
    /\ pc = "status_read"
    /\ reads' = Append(reads, <<EPin0, EPin0_size>>)
    /\ \/ /\ UsbReadOk(EPin0, EPin0_size)
          /\ LET ret == Head(epq[EPin0]) IN
               IF Len(ret) # StatusSize
               THEN Throw("struct.error") /\ UNCHANGED self
               ELSE StatusDone(StatusRecord(ret))
       \/ /\ UsbReadFail(EPin0, EPin0_size)
          /\ Throw("USBError")
          /\ UNCHANGED self
    /\ UNCHANGED <<calls, op, arg, buf, sent, specEps, warned>>
    /\ UNCHANGED <<callerVars, utilVars>>
    /\ UNCHANGED slept

\* self._EPin1 if self._usb_speed == 0x80 else self._EPin0
SpectralEndpointSwapped(usb_speed) ==
    IF usb_speed = HighSpeed THEN EPin0 ELSE EPin1
SpectralEndpoint(usb_speed) == IF usb_speed = HighSpeed THEN EPin1 ELSE EPin0

\* __init__: the endpoint and the packet layout for the reported speed
SelectEndpoint ==
    /\ pc = "select_endpoint"
    /\ IF self.usb_speed \in SpecConfigSpeeds
       THEN /\ self' = [self EXCEPT
                  !.EPspec = SpectralEndpoint(self.usb_speed),
                  !.packet_N = SpecConfig(self.usb_speed).packet_N,
                  !.packet_size = SpecConfig(self.usb_speed).packet_size,
                  !.packet_func = SpecConfig(self.usb_speed).packet_func]
            /\ state' = "EndpointSelected"
            /\ pc' = "setit_send"
            /\ UNCHANGED <<i, err, result, absorbed, lastExc>>
       ELSE \* _OOSpecConfig[model][self._usb_speed]
            /\ self' = [self EXCEPT
                  !.EPspec = SpectralEndpoint(self.usb_speed)]
            /\ Throw("KeyError")
    /\ UNCHANGED <<envVars, calls, op, arg, buf, sent, reads, specEps, warned>>
    /\ UNCHANGED <<callerVars, utilVars>>
    /\ UNCHANGED slept


\* integration_time arguments a caller passes (None: no argument)
TimeArgs == {None, WarmupTime, 100000}
\* addresses a caller passes to _query_information
AddressArgs == {5, 255, 256}

\* _set_integration_time: send command 0x02
SetIntegrationTimeSend ==
    /\ pc = "setit_send"
    /\ LET time_us == IF op = "init" THEN WarmupTime ELSE arg
           data == PackB(CmdSetIntegrationTime) \o PackI(time_us) IN
         /\ sent' = Append(sent, data)
         /\ \/ UsbSendOk(data) /\ Goto("status_send")
            \/ UsbSendFail /\ Throw("USBError")
    /\ UNCHANGED <<calls, op, arg, buf, self, reads, specEps, warned>>
    /\ UNCHANGED <<callerVars, utilVars>>
    /\ UNCHANGED slept

\* _request_spectrum: _usb_send(struct.pack('<B', 0x09)), then the sleep
RequestSpectrumSend ==
    /\ pc = "spec_send"
    /\ LET data == PackB(CmdRequestSpectrum) IN
         /\ sent' = Append(sent, data)
         /\ buf' = <<>>
         /\ \/ /\ UsbSendOk(data)
               \* time.sleep(max(self._integration_time - self._USBTIMEOUT, 0))
               /\ slept' = [used |-> self.integration_time,
                            wait |-> Wait(self.integration_time,
                                          self.USBTIMEOUT)]
               /\ Goto("spec_read")
            \/ UsbSendFail /\ Throw("USBError") /\ UNCHANGED slept
    /\ UNCHANGED <<calls, op, arg, self, reads, specEps, warned>>
    /\ UNCHANGED <<callerVars, utilVars>>

\* _request_spectrum: one _usb_read of the packet comprehension
RequestSpectrumRead ==
    /\ pc = "spec_read"
    /\ reads' = Append(reads, <<self.EPspec, self.packet_size>>)
    /\ specEps' = specEps \cup {self.EPspec}
    /\ \/ /\ UsbReadOk(self.EPspec, self.packet_size)
          /\ buf' = Append(buf, Head(epq[self.EPspec]))
          /\ Goto(IF Len(buf) + 1 = self.packet_N THEN "sync_read"
                                                ELSE "spec_read")
       \/ /\ UsbReadFail(self.EPspec, self.packet_size)
          /\ Throw("USBError")
          /\ UNCHANGED buf
    /\ UNCHANGED <<calls, op, arg, self, sent, warned>>
    /\ UNCHANGED <<callerVars, utilVars>>
    /\ UNCHANGED slept

\* the model's sample decode function, named in the layout table
PacketFunc(f, x) == IF f = "ident" THEN x ELSE x

\* struct.unpack('<' + 'h' * pixels, ret) and map(self._packet_func, ...)
DecodeSpectrum(ret, pixels, f) ==
    [p \in 1..pixels |-> PacketFunc(f, Unpackh(ret, 2 * p - 1))]

(***************************************************************************)
(* Exact arithmetic for the nonlinearity polynomial: a number is a sign    *)
(* and a magnitude of decimal limbs, least significant first, so that the  *)
(* seventh power of a 16 bit sample is representable.                      *)
(***************************************************************************)
NumBase == 10000
Abs(n) == IF n < 0 THEN 0 - n ELSE n

RECURSIVE Trim(_)
\* a magnitude without leading zero limbs
Trim(a) ==
    IF a # <<>> /\ a[Len(a)] = 0 THEN Trim(SubSeq(a, 1, Len(a) - 1)) ELSE a

RECURSIVE MagOfInt(_)
MagOfInt(n) ==
    IF n = 0 THEN <<>> ELSE <<n % NumBase>> \o MagOfInt(n \div NumBase)

Num(neg, mag) == [neg |-> neg /\ mag # <<>>, mag |-> mag]
NumOfInt(n) == Num(n < 0, MagOfInt(Abs(n)))

RECURSIVE MagScale(_, _, _)
\* a * m + carry, for 0 <= m <= 32768
MagScale(a, m, carry) ==
    IF a = <<>> THEN MagOfInt(carry)
    ELSE LET t == a[1] * m + carry IN
           <<t % NumBase>> \o MagScale(Tail(a), m, t \div NumBase)

RECURSIVE MagAdd(_, _, _)
MagAdd(a, b, carry) ==
    IF a = <<>> /\ b = <<>> THEN MagOfInt(carry)
    ELSE LET x == IF a = <<>> THEN 0 ELSE a[1]
             y == IF b = <<>> THEN 0 ELSE b[1]
             t == x + y + carry IN
           <<t % NumBase>>
             \o MagAdd(IF a = <<>> THEN a ELSE Tail(a),
                       IF b = <<>> THEN b ELSE Tail(b), t \div NumBase)

RECURSIVE MagLess(_, _)
\* a < b, for magnitudes without leading zero limbs
MagLess(a, b) ==
    IF Len(a) # Len(b) THEN Len(a) < Len(b)
    ELSE IF a = <<>> THEN FALSE
    ELSE IF a[Len(a)] # b[Len(b)] THEN a[Len(a)] < b[Len(b)]
    ELSE MagLess(SubSeq(a, 1, Len(a) - 1), SubSeq(b, 1, Len(b) - 1))

RECURSIVE MagSubRaw(_, _, _)
\* a - b - borrow, for a >= b + borrow
MagSubRaw(a, b, borrow) ==
    IF a = <<>> THEN <<>>
    ELSE LET y == IF b = <<>> THEN 0 ELSE b[1]
             t == a[1] - y - borrow IN
           <<t % NumBase>>
             \o MagSubRaw(Tail(a), IF b = <<>> THEN b ELSE Tail(b),
                          IF t < 0 THEN 1 ELSE 0)
MagSub(a, b) == Trim(MagSubRaw(a, b, 0))

NumAdd(x, y) ==
    IF x.neg = y.neg THEN Num(x.neg, MagAdd(x.mag, y.mag, 0))
    ELSE IF MagLess(x.mag, y.mag) THEN Num(y.neg, MagSub(y.mag, x.mag))
    ELSE Num(x.neg, MagSub(x.mag, y.mag))

\* x * m for an integer m of at most 16 bits
NumScale(x, m) == Num(x.neg # (m < 0), MagScale(x.mag, Abs(m), 0))

RECURSIVE NumPower(_, _)
\* data**i
NumPower(x, n) == IF n = 0 THEN NumOfInt(1) ELSE NumScale(NumPower(x, n - 1), x)

RECURSIVE Polynomial(_, _, _)
\* sum(self._nl_factors[i] * data**i for i in range(n))
Polynomial(nl_factors, x, n) ==
    IF n = 0 THEN NumOfInt(0)
    ELSE NumAdd(Polynomial(nl_factors, x, n - 1),
                NumScale(NumPower(x, n - 1), nl_factors[n]))

LinearizeDegreeSix(data, nl_factors) ==
    [p \in DOMAIN data |->
        [num |-> data[p], den |-> Polynomial(nl_factors, data[p], 7)]]
\* data / sum(self._nl_factors[i] * data**i for i in range(8)): the
\* quotient of each sample, kept as numerator and denominator
Linearize(data, nl_factors) ==
    [p \in DOMAIN data |->
        [num |-> data[p], den |-> Polynomial(nl_factors, data[p], 8)]]

\* what the caller of _request_spectrum does with the samples
SpectrumDone(spectrum) ==
    IF op = "init"
    THEN \* _init_robust_spectrum: break, then the calibration reads
         /\ state' = "SpectrumWarm"
         /\ pc' = "info_send"
         /\ i' = 1
         /\ UNCHANGED <<err, result>>
    ELSE \* spectrum(raw)
         /\ pc' = "idle"
         /\ err' = NoError
         /\ result' = [kind |-> "spectrum", raw |-> (arg = 1),
                       data |-> spectrum,
                       value |-> IF arg = 1 THEN spectrum
                                 ELSE Linearize(spectrum, self.nl_factors)]
         /\ UNCHANGED <<state, i>>

\* _request_spectrum: the sync read, the check and the decode
RequestSpectrumSync ==
    /\ pc = "sync_read"
    /\ reads' = Append(reads, <<self.EPspec, 1>>)
    /\ specEps' = specEps \cup {self.EPspec}
    /\ \/ /\ UsbReadOk(self.EPspec, 1)
          /\ LET sync == Head(epq[self.EPspec])
                 ret == Concat(buf) IN
               IF sync = <<>> THEN Throw("IndexError")
               ELSE IF sync[1] # SyncByte
               THEN Throw("OOError: Wrong sync byte")
               ELSE IF Len(ret) # 2 * self.pixels THEN Throw("struct.error")
               ELSE /\ SpectrumDone(DecodeSpectrum(ret, self.pixels,
                                                   self.packet_func))
                    /\ UNCHANGED <<absorbed, lastExc>>
       \/ /\ UsbReadFail(self.EPspec, 1)
          /\ Throw("USBError")
    /\ buf' = <<>>
    /\ UNCHANGED <<calls, op, arg, self, sent, warned>>
    /\ UNCHANGED <<callerVars, utilVars>>
    /\ UNCHANGED slept

\* the address of the running _query_information
Address == IF op = "init" THEN i ELSE arg

\* _query_information: struct.pack('<BB', 0x05, int(address)) and the send
QueryInformationSend ==
    /\ pc = "info_send"
    /\ IF Address \notin Byte
       THEN Throw("struct.error") /\ UNCHANGED <<envVars, sent>>
       ELSE LET data == PackB(CmdQueryInformation) \o PackB(Address) IN
              /\ sent' = Append(sent, data)
              /\ \/ UsbSendOk(data) /\ Goto("info_read")
                 \/ UsbSendFail /\ Throw("USBError")
    /\ UNCHANGED <<calls, op, arg, buf, self, reads, specEps, warned>>
    /\ UNCHANGED <<callerVars, utilVars>>
    /\ UNCHANGED slept

\* ret[2:].index(0) + 2, as a 1-based position: the first zero at or after
\* offset 2, or 0 when there is none
FirstZero(ret) ==
    LET zs == {k \in 3..Len(ret) : ret[k] = 0} IN
      IF zs = {} THEN 0 ELSE CHOOSE k \in zs : \A m \in zs : k <= m

\* _query_information: the check of the answer and the slice
QueryInformationDecodeNoMod(ret, address) ==
    IF Len(ret) = 0 THEN [exc |-> "IndexError"]
    ELSE IF ret[1] # CmdQueryInformation
    THEN [exc |-> "OOError: Wrong answer"]
    ELSE IF Len(ret) = 1 THEN [exc |-> "IndexError"]
    ELSE IF ret[2] # address THEN [exc |-> "OOError: Wrong answer"]
    ELSE IF FirstZero(ret) = 0 THEN [exc |-> "ValueError"]
    ELSE [exc |-> NoError, text |-> SubSeq(ret, 3, FirstZero(ret) - 1)]
QueryInformationDecode(ret, address) ==
    IF Len(ret) = 0 THEN [exc |-> "IndexError"]
    ELSE IF ret[1] # CmdQueryInformation
    THEN [exc |-> "OOError: Wrong answer"]
    ELSE IF Len(ret) = 1 THEN [exc |-> "IndexError"]
    ELSE IF ret[2] # address % 255 THEN [exc |-> "OOError: Wrong answer"]
    ELSE IF FirstZero(ret) = 0 THEN [exc |-> "ValueError"]
    ELSE [exc |-> NoError, text |-> SubSeq(ret, 3, FirstZero(ret) - 1)]

RECURSIVE Decimal(_)
Decimal(text) ==
    IF text = <<>> THEN 0
    ELSE 10 * Decimal(SubSeq(text, 1, Len(text) - 1)) + (text[Len(text)] - 48)

\* float(text) of a text of decimal digits; anything else is a ValueError
Float(text) ==
    IF text # <<>> /\ \A k \in 1..Len(text) : text[k] \in 48..57
    THEN [exc |-> NoError, value |-> Decimal(text)]
    ELSE [exc |-> "ValueError"]

RECURSIVE Power(_, _)
Power(x, n) == IF n = 0 THEN 1 ELSE x * Power(x, n - 1)

\* sum(self._wl_factors[i] * np.arange(self._pixels)**i for i in range(4))
WavelengthAxis(wl_factors, pixels) ==
    [p \in 1..pixels |->
        wl_factors[1] + wl_factors[2] * (p - 1)
          + wl_factors[3] * Power(p - 1, 2) + wl_factors[4] * Power(p - 1, 3)]

\* range(6,14): the first address of the nonlinearity coefficients
NlFirstAfterWavelengths == 4 + 1
NlFirst == 6

\* what the caller of _query_information does with the text
InformationDone(text) ==
    IF op = "init"
    THEN \* __init__: the two comprehensions over range(1,5) and range(6,14)
         LET f == Float(text) IN
           IF f.exc # NoError THEN Throw(f.exc) /\ UNCHANGED <<self, buf>>
           ELSE
             /\ UNCHANGED <<err, result, absorbed, lastExc>>
             /\ IF i = 4
                THEN /\ self' = [self EXCEPT !.wl_factors = Append(buf, f.value)]
                     /\ buf' = <<>>
                     /\ i' = NlFirst /\ pc' = "info_send" /\ state' = state
                ELSE IF i = 13
                THEN /\ self' = [self EXCEPT
                           !.nl_factors = Append(buf, f.value),
                           !.wl = WavelengthAxis(self.wl_factors, self.pixels)]
                     /\ buf' = <<>>
                     /\ i' = i /\ pc' = "return" /\ state' = "Calibrated"
                ELSE /\ buf' = Append(buf, f.value)
                     /\ i' = i + 1 /\ pc' = "info_send" /\ state' = state
                     /\ UNCHANGED self
    ELSE /\ pc' = "idle"
         /\ err' = NoError
         /\ result' = [kind |-> "information", text |-> text]
         /\ UNCHANGED <<state, i, absorbed, lastExc, self, buf>>

\* _query_information: the read of _usb_query and what follows it
QueryInformationRead ==
    /\ pc = "info_read"
    /\ reads' = Append(reads, <<EPin0, EPin0_size>>)
    /\ \/ /\ UsbReadOk(EPin0, EPin0_size)
          /\ LET d == QueryInformationDecode(Head(epq[EPin0]), Address) IN
               IF d.exc # NoError THEN Throw(d.exc) /\ UNCHANGED <<self, buf>>
               ELSE InformationDone(d.text)
       \/ /\ UsbReadFail(EPin0, EPin0_size)
          /\ Throw("USBError")
          /\ UNCHANGED <<self, buf>>
    /\ UNCHANGED <<calls, op, arg, sent, specEps, warned>>
    /\ UNCHANGED <<callerVars, utilVars>>
    /\ UNCHANGED slept

\* __init__ returns: the object exists
Return ==
    /\ pc = "return"
    /\ state' = "Ready"
    /\ pc' = "idle"
    /\ UNCHANGED <<envVars, calls, op, arg, i, buf, self, result, err, sent,
                   absorbed, lastExc, reads, specEps, warned>>
    /\ UNCHANGED <<callerVars, utilVars>>
    /\ UNCHANGED slept

(***************************************************************************)
(* The public operations of a Ready driver.                                *)
(***************************************************************************)
Callable == state = "Ready" /\ pc = "idle" /\ calls < MaxCalls

Begin(name, a, p) ==
    /\ Callable
    /\ calls' = calls + 1
    /\ op' = name
    /\ arg' = a
    /\ pc' = p
    /\ sent' = <<>>
    /\ reads' = <<>>
    /\ err' = NoError
    /\ lastExc' = NoError
    /\ absorbed' = <<>>

\* wavelengths(): return self._wl
WavelengthsRecomputed ==
    /\ Begin("wavelengths", None, "idle")
    /\ self' = [self EXCEPT !.wl = WavelengthAxis(self.nl_factors, self.pixels)]
    /\ result' = [kind |-> "wavelengths", wl |-> self'.wl]
    /\ UNCHANGED <<envVars, state, i, buf, specEps, warned>>
    /\ UNCHANGED <<callerVars, utilVars>>
    /\ UNCHANGED slept
Wavelengths ==
    /\ Begin("wavelengths", None, "idle")
    /\ result' = [kind |-> "wavelengths", wl |-> self.wl]
    /\ UNCHANGED <<envVars, state, i, buf, self, specEps, warned>>
    /\ UNCHANGED <<callerVars, utilVars>>
    /\ UNCHANGED slept

\* spectrum(raw): up to the call of _request_spectrum
Spectrum ==
    /\ \E raw \in BOOLEAN : Begin("spectrum", IF raw THEN 1 ELSE 0, "spec_send")
    /\ result' = NoResult
    /\ UNCHANGED <<envVars, state, i, buf, self, specEps, warned>>
    /\ UNCHANGED <<callerVars, utilVars>>
    /\ UNCHANGED slept

\* integration_time(time_us): up to the first transfer
IntegrationTime ==
    /\ \E time_us \in TimeArgs :
          Begin("integration_time", time_us,
                IF time_us = None THEN "status_send" ELSE "setit_send")
    /\ result' = NoResult
    /\ UNCHANGED <<envVars, state, i, buf, self, specEps, warned>>
    /\ UNCHANGED <<callerVars, utilVars>>
    /\ UNCHANGED slept

\* _query_information(address), called on the object
QueryInformation ==
    /\ \E address \in AddressArgs : Begin("query_information", address, "info_send")
    /\ result' = NoResult
    /\ UNCHANGED <<envVars, state, i, buf, self, specEps, warned>>
    /\ UNCHANGED <<callerVars, utilVars>>
    /\ UNCHANGED slept

Next ==
    \/ Connect
    \/ Initialize
    \/ StatusSend
    \/ StatusRead
    \/ SelectEndpoint
    \/ SetIntegrationTimeSend
    \/ RequestSpectrumSend
    \/ RequestSpectrumRead
    \/ RequestSpectrumSync
    \/ QueryInformationSend
    \/ QueryInformationRead
    \/ Return
    \/ Wavelengths
    \/ Spectrum
    \/ IntegrationTime
    \/ QueryInformation

Spec == Init /\ [][Next]_vars

(***************************************************************************)
(* Two callers on one driver object.  The object and the device are        *)
(* shared; the position of an operation and its locals belong to the       *)
(* caller that runs it.  The steps of an operation are the steps above,    *)
(* taken by the caller the processor is running; a switch between two      *)
(* steps hands the processor to the other caller.                          *)
(***************************************************************************)
\* the devices a fault-free construction ends Ready with
ReadyDevices ==
    {d \in [pixels : DevPixelCounts, speed : SpecConfigSpeeds,
            pkt : DevPacketSizes, image : Images] :
        /\ d.pkt = SpecConfig(d.speed).packet_size
        /\ 2 * d.pixels = SpecConfig(d.speed).packet_N * d.pkt}

\* the fields __init__ leaves in the object, for the device at hand
ReadySelf ==
    LET wl_factors == [k \in 1..4 |-> Float(DevInfoText(k)).value] IN
    [dev |-> 1,
     USBTIMEOUT |-> DefaultTimeout,
     usb_speed |-> devCfg.speed,
     integration_time |-> MicroSeconds(devIT),
     pixels |-> devCfg.pixels,
     EPspec |-> SpectralEndpoint(devCfg.speed),
     packet_N |-> SpecConfig(devCfg.speed).packet_N,
     packet_size |-> SpecConfig(devCfg.speed).packet_size,
     packet_func |-> SpecConfig(devCfg.speed).packet_func,
     wl_factors |-> wl_factors,
     nl_factors |-> [k \in 1..8 |-> Float(DevInfoText(k + 5)).value],
     wl |-> WavelengthAxis(wl_factors, devCfg.pixels)]

\* a constructed driver, nothing in flight, two callers outside of it
InitTwoCallers ==
    /\ plugged = 1
    /\ devCfg \in ReadyDevices
    /\ devBusy = 0
    /\ devIT \in {DevDefaultTime, WarmupTime}
    /\ epq = [ep \in {EPin0, EPin1} |-> <<>>]
    /\ faults = MaxFaults
    /\ calls = 0
    /\ state = "Ready"
    /\ pc = "idle"
    /\ op = "none"
    /\ arg = None
    /\ i = 0
    /\ buf = <<>>
    /\ self = ReadySelf
    /\ result = NoResult
    /\ err = NoError
    /\ sent = <<>>
    /\ absorbed = <<>>
    /\ lastExc = NoError
    /\ reads = <<>>
    /\ specEps = {SpectralEndpoint(devCfg.speed)}
    /\ warned = FALSE
    /\ caller = 1
    /\ parked = Outside
    /\ useMutex \in BOOLEAN
    /\ NoUtils
    /\ slept = [used |-> MicroSeconds(devIT),
                wait |-> Wait(MicroSeconds(devIT), DefaultTimeout)]

\* the other caller may run now: always without a mutex; with one, only
\* when the running caller is not inside an operation
MaySwitch == useMutex => pc = "idle"

\* the processor goes from the running caller to the other one
Switch ==
    /\ MaySwitch
    /\ caller' = 3 - caller
    /\ parked' = [pc |-> pc, op |-> op, arg |-> arg, i |-> i, buf |-> buf,
                  result |-> result, err |-> err, sent |-> sent,
                  absorbed |-> absorbed, lastExc |-> lastExc, reads |-> reads]
    /\ pc' = parked.pc /\ op' = parked.op /\ arg' = parked.arg
    /\ i' = parked.i /\ buf' = parked.buf /\ result' = parked.result
    /\ err' = parked.err /\ sent' = parked.sent
    /\ absorbed' = parked.absorbed /\ lastExc' = parked.lastExc
    /\ reads' = parked.reads
    /\ UNCHANGED <<envVars, calls, state, self, specEps, warned, useMutex>>
    /\ UNCHANGED utilVars
    /\ UNCHANGED slept

\* caller 1 acquires spectra, caller 2 sets and reads the integration time
CallerSpectrum == caller = 1 /\ Spectrum
CallerIntegrationTime == caller = 2 /\ IntegrationTime

NextTwoCallers ==
    \/ Switch
    \/ CallerSpectrum
    \/ CallerIntegrationTime
    \/ SetIntegrationTimeSend
    \/ StatusSend
    \/ StatusRead
    \/ RequestSpectrumSend
    \/ RequestSpectrumRead
    \/ RequestSpectrumSync

SpecTwoCallers == InitTwoCallers /\ [][NextTwoCallers]_vars


(***************************************************************************)
(* utils: the functions that enumerate the supported devices of the bus    *)
(* and hand out spectrometer objects.  A device is named by its serial     *)
(* number.  Constructing an object and disposing of one are single steps.  *)
(***************************************************************************)
\* supported devices that can be plugged in
MaxDevices == 3
Serials == 1..MaxDevices

\* the orders in which usb.core.find can list a set of devices
Listings(S) ==
    {b \in [1..Cardinality(S) -> S] : \A j, k \in DOMAIN b : b[j] = b[k] => j = k}

\* some devices are plugged in, some of them in use by another program;
\* the application holds no object
InitUtils ==
    /\ plugged = 0
    /\ devCfg = [pixels |-> 2, speed |-> 0, pkt |-> 2, image |-> 0]
    /\ devBusy = 0
    /\ devIT = DevDefaultTime
    /\ epq = [ep \in {EPin0, EPin1} |-> <<>>]
    /\ faults = 0
    /\ calls = 0
    /\ state = "Disconnected"
    /\ pc = "idle"
    /\ op = "none"
    /\ arg = None
    /\ i = 0
    /\ buf = <<>>
    /\ self = Unset
    /\ result = NoResult
    /\ err = NoError
    /\ sent = <<>>
    /\ absorbed = <<>>
    /\ lastExc = NoError
    /\ reads = <<>>
    /\ specEps = {}
    /\ warned = FALSE
    /\ caller = 1
    /\ parked = Outside
    /\ useMutex = TRUE
    /\ \E S \in SUBSET Serials :
         /\ bus \in Listings(S)
         /\ connected \in SUBSET S
    /\ held = {}
    /\ opened = {}
    /\ disposed = {}
    /\ spectrometers = {}
    /\ selected = None
    /\ todo = {}
    /\ slept = NoSleep

driverVars ==
    <<plugged, devCfg, devBusy, devIT, epq, state, buf, self, sent, absorbed,
      reads, specEps, warned, caller, parked, useMutex, bus>>

\* spec_class(device=d): the construction succeeds, or raises
OpenOutcomes(d) ==
    IF d \in connected THEN {"USBError"}
    ELSE {"ok"} \cup (IF faults < MaxFaults
                      THEN {"USBError", "OOError: Wrong sync byte"} ELSE {})

\* get_available_spectrometers: except usb.core.USBError: continue
EnumerateCatchesNothing(e) == FALSE
EnumerateCatches(e) == e = "USBError"

\* a function of utils is called
UtilBegin(a) ==
    /\ pc = "idle" /\ calls < MaxCalls
    /\ calls' = calls + 1
    /\ arg' = a
    /\ pc' = "enumerate"
    /\ i' = 1
    /\ spectrometers' = {}
    /\ selected' = None
    /\ opened' = {}
    /\ disposed' = {}
    /\ todo' = {}
    /\ result' = NoResult
    /\ err' = NoError
    /\ lastExc' = NoError
    /\ UNCHANGED <<driverVars, faults, connected, held>>
    /\ UNCHANGED slept

GetAvailableSpectrometers ==
    /\ op' = "get_available_spectrometers"
    /\ UtilBegin(None)
GetSpectrometer ==
    /\ op' = "get_spectrometer"
    /\ \E serial_num \in Serials \cup {None} : UtilBegin(serial_num)
ListAvailableSpectrometers ==
    /\ op' = "list_available_spectrometers"
    /\ UtilBegin(None)

\* get_available_spectrometers: one turn of 'for d in devices'
EnumerateNext ==
    /\ pc = "enumerate" /\ i <= Len(bus)
    /\ LET d == bus[i] IN
       \E r \in OpenOutcomes(d) :
         /\ faults' = IF d \notin connected /\ r # "ok" THEN faults + 1
                      ELSE faults
         /\ IF r = "ok"
            THEN \* spectrometers[spectro.serial_number] = spectro
                 /\ connected' = connected \cup {d}
                 /\ opened' = opened \cup {d}
                 /\ spectrometers' = spectrometers \cup {d}
                 /\ i' = i + 1
                 /\ UNCHANGED <<pc, err, result, lastExc>>
            ELSE IF EnumerateCatches(r)
            THEN /\ i' = i + 1
                 /\ lastExc' = r
                 /\ UNCHANGED <<pc, err, result, connected, opened,
                                spectrometers>>
            ELSE \* the exception leaves the function and its caller
                 /\ err' = r
                 /\ lastExc' = r
                 /\ pc' = "idle"
                 /\ result' = NoResult
                 /\ UNCHANGED <<i, connected, opened, spectrometers>>
    /\ UNCHANGED <<driverVars, calls, op, arg, held, disposed, selected, todo>>
    /\ UNCHANGED slept

\* get_available_spectrometers: return spectrometers, and the statement of
\* the caller that receives it
EnumerateDone ==
    /\ pc = "enumerate" /\ i > Len(bus)
    /\ CASE op = "get_available_spectrometers" ->
              /\ result' = [kind |-> "dict", keys |-> spectrometers]
              /\ held' = held \cup spectrometers
              /\ pc' = "idle"
              /\ UNCHANGED <<todo, err>>
         [] op = "get_spectrometer" ->
              /\ pc' = "select"
              /\ UNCHANGED <<result, held, todo, err>>
         [] op = "list_available_spectrometers" ->
              \* spectro_ids = spectros.keys()
              /\ pc' = "list_dispose"
              /\ todo' = spectrometers
              /\ UNCHANGED <<result, held, err>>
    /\ UNCHANGED <<driverVars, faults, calls, op, arg, i, lastExc, connected,
                   opened, disposed, spectrometers, selected>>
    /\ UNCHANGED slept

\* spectrometers.pop(serial_num): the dict without the key
PopKeepsKey(dict, serial_num) == dict
Pop(dict, serial_num) == dict \ {serial_num}

\* get_spectrometer: from 'if not spectrometers' to the try
Select ==
    /\ pc = "select"
    /\ IF spectrometers = {}
       THEN /\ err' = "OOError: no available spectrometers found"
            /\ lastExc' = err'
            /\ pc' = "idle"
            /\ UNCHANGED <<selected, todo, spectrometers>>
       ELSE \E first \in spectrometers :
              \* serial_num = spectrometers.keys()[0]
              LET serial_num == IF arg = None THEN first ELSE arg IN
                /\ pc' = "finally"
                /\ err' = err
                /\ IF serial_num \in spectrometers
                   THEN /\ selected' = serial_num
                        /\ spectrometers' = Pop(spectrometers, serial_num)
                        /\ todo' = spectrometers'
                        /\ lastExc' = NoError
                   ELSE \* except KeyError: raise _OOError(...), after finally
                        /\ selected' = None
                        /\ todo' = spectrometers
                        /\ lastExc' = "OOError: Spectrometer is not available"
                        /\ UNCHANGED spectrometers
    /\ UNCHANGED <<driverVars, faults, calls, op, arg, i, result, connected,
                   held, opened, disposed>>
    /\ UNCHANGED slept

\* one turn of 'for s in ....values(): s.dispose()'
DisposeNext ==
    /\ pc \in {"finally", "list_dispose"}
    /\ \E d \in todo :
         /\ todo' = todo \ {d}
         /\ connected' = connected \ {d}
         /\ disposed' = disposed \cup {d}
    /\ UNCHANGED <<driverVars, faults, calls, pc, op, arg, i, result, err,
                   lastExc, held, opened, spectrometers, selected>>
    /\ UNCHANGED slept

\* get_spectrometer: after the finally block, the raise or the return
FinallyDone ==
    /\ pc = "finally" /\ todo = {}
    /\ pc' = "idle"
    /\ IF lastExc # NoError
       THEN err' = lastExc /\ UNCHANGED <<result, held>>
       ELSE /\ result' = [kind |-> "spectrometer", serial |-> selected]
            /\ held' = held \cup {selected}
            /\ UNCHANGED err
    /\ UNCHANGED <<driverVars, faults, calls, op, arg, i, lastExc, connected,
                   opened, disposed, spectrometers, selected, todo>>
    /\ UNCHANGED slept

\* list_available_spectrometers: return spectro_ids
ListDone ==
    /\ pc = "list_dispose" /\ todo = {}
    /\ pc' = "idle"
    /\ result' = [kind |-> "serials", keys |-> spectrometers]
    /\ UNCHANGED <<driverVars, faults, calls, op, arg, i, err, lastExc,
                   connected, held, opened, disposed, spectrometers, selected,
                   todo>>
    /\ UNCHANGED slept

\* the application disposes of an object it holds
AppDispose ==
    /\ pc = "idle"
    /\ \E d \in held :
         /\ held' = held \ {d}
         /\ connected' = connected \ {d}
    /\ UNCHANGED <<driverVars, faults, calls, pc, op, arg, i, result, err,
                   lastExc, opened, disposed, spectrometers, selected, todo>>
    /\ UNCHANGED slept

NextUtils ==
    \/ GetAvailableSpectrometers
    \/ GetSpectrometer
    \/ ListAvailableSpectrometers
    \/ EnumerateNext
    \/ EnumerateDone
    \/ Select
    \/ DisposeNext
    \/ FinallyDone
    \/ ListDone
    \/ AppDispose

SpecUtils == InitUtils /\ [][NextUtils]_vars

(***************************************************************************)
(* Properties.                                                             *)
(***************************************************************************)
\* the commands of sent that satisfy a test
Count(seq, Test(_)) == Cardinality({k \in DOMAIN seq : Test(seq[k])})
IsQueryStatus(c) == c = <<CmdQueryStatus>>
IsSetTime(c) == c[1] = CmdSetIntegrationTime
IsRequestSpectrum(c) == c = <<CmdRequestSpectrum>>
IsQueryInformation(c) == c[1] = CmdQueryInformation
\* the QueryStatus commands of the construction written before any
\* SetIntegrationTime: the attempts of the status retry loop
LoopTries ==
    Cardinality({k \in DOMAIN sent :
        /\ IsQueryStatus(sent[k])
        /\ \A m \in 1..(k - 1) : ~IsSetTime(sent[m])})
PastStatus ==
    {"StatusKnown", "EndpointSelected", "SpectrumWarm", "Calibrated", "Ready"}

\* C1: during construction QueryStatus is attempted at most 10 times; every
\* attempt before the last one failed with an absorbed error, so the loop
\* stops at the first success and goes on with the status the device
\* reported; ten failures, and only ten, end construction with
\* 'Initialization USBCOM'.
C1_StatusRetry ==
    op = "init" =>
      /\ LoopTries <= 10
      /\ (state = "Connected" /\ pc = "status_send")
            => LoopTries = Len(absorbed)
      /\ (state = "Connected" /\ pc = "status_read")
            => LoopTries = Len(absorbed) + 1
      /\ state \in PastStatus
            => /\ LoopTries = Len(absorbed) + 1
               /\ Len(absorbed) <= 9
               /\ self.pixels = devCfg.pixels
               /\ self.usb_speed = devCfg.speed
      /\ err = "OOError: Initialization USBCOM"
            <=> (state = "Failed" /\ Len(absorbed) = 10 /\ LoopTries = 10)
      /\ Len(absorbed) = 10 => err = "OOError: Initialization USBCOM"
      /\ \A k \in DOMAIN sent : IsQueryStatus(sent[k]) => k > 1

\* nine attempts failed and the tenth gave the status
C1_Witness == state = "StatusKnown" /\ Len(absorbed) = 9 /\ LoopTries = 10

\* C2: the only exceptions ever absorbed are USBErrors raised by the status
\* query inside the retry loop of the construction; every other exception
\* ends the running operation in the step that raised it and is the error
\* the caller gets.
C2_OnlyTransportAbsorbed ==
    /\ \A k \in DOMAIN absorbed :
          absorbed[k] = [exc |-> "USBError", site |-> "status"]
    /\ op = "init" => LoopTries >= Len(absorbed)
    /\ lastExc # NoError =>
          \/ err = lastExc /\ pc \in {"done", "idle"}
          \/ /\ lastExc = "USBError" /\ absorbed # <<>> /\ op = "init"
             /\ \/ err = NoError
                \/ err = "OOError: Initialization USBCOM" /\ Len(absorbed) = 10
    /\ err # NoError => pc \in {"done", "idle"} /\ result = NoResult
    /\ (op = "init" /\ err # NoError) => state = "Failed"

\* a short status record inside the retry loop, after an absorbed failure,
\* ended the construction with the parse error
C2_Witness ==
    /\ state = "Failed" /\ err = "struct.error" /\ absorbed # <<>>
    /\ LoopTries = Len(sent) - 1

\* C3: the warm-up of the construction writes SetIntegrationTime(1000) and
\* then at most one RequestSpectrum, exactly one once the warm-up is over;
\* a failure of that acquisition ends the construction with the error it
\* raised, and 'Initialization SPECTRUM' is never the error.
C3_WarmupOnce ==
    op = "init" =>
      /\ Count(sent, IsRequestSpectrum) <= 1
      /\ Count(sent, IsSetTime) <= 1
      /\ \A k \in DOMAIN sent :
            /\ IsSetTime(sent[k])
                  => sent[k] = <<CmdSetIntegrationTime, 232, 3, 0, 0>>
            /\ IsRequestSpectrum(sent[k])
                  => /\ k >= 3
                     /\ IsSetTime(sent[k - 2])
                     /\ IsQueryStatus(sent[k - 1])
                     /\ self.integration_time.micro
      /\ state \in {"SpectrumWarm", "Calibrated", "Ready"}
            => Count(sent, IsRequestSpectrum) = 1
      /\ err # "OOError: Initialization SPECTRUM"
      /\ \A k \in DOMAIN absorbed : absorbed[k].site # "spectrum"
      /\ (state = "Failed" /\ Count(sent, IsRequestSpectrum) = 1
            /\ Count(sent, IsQueryInformation) = 0)
            => err = lastExc

\* the one acquisition of the warm-up read a wrong sync byte
C3_Witness ==
    /\ op = "init" /\ state = "Failed" /\ err = "OOError: Wrong sync byte"
    /\ Count(sent, IsRequestSpectrum) = 1


\* a read of the endpoint is about to return its oldest transfer, and does
ReadReturns(ep, size) ==
    /\ epq[ep] # <<>>
    /\ Len(Head(epq[ep])) <= size
    /\ epq'[ep] = Tail(epq[ep])
\* the two's complement value of a 16 bit sample
Signed16(u) == IF u >= 32768 THEN u - 65536 ELSE u
\* the samples the device sends for a scene
SceneSamples(scene) ==
    [p \in 1..devCfg.pixels |-> Signed16(p + 256 * scene)]

\* what the step that reads the sync byte must do
C4_Step ==
    (pc = "sync_read" /\ ReadReturns(self.EPspec, 1)
        /\ Len(Head(epq[self.EPspec])) = 1)
    => LET sync == Head(epq[self.EPspec])[1]
           ret == Concat(buf)
       IN /\ sync # 105
               => /\ err' = "OOError: Wrong sync byte"
                  /\ result' = NoResult
                  /\ pc' \in {"idle", "done"}
          /\ sync = 105
               => /\ err' # "OOError: Wrong sync byte"
                  /\ Len(ret) # 2 * self.pixels => err' = "struct.error"
                  /\ (Len(ret) = 2 * self.pixels /\ op = "spectrum")
                       => /\ err' = NoError
                          /\ result'.kind = "spectrum"
                          /\ DOMAIN result'.data = 1..self.pixels
                          /\ \A p \in 1..self.pixels :
                                /\ result'.data[p] \in -32768..32767
                                /\ result'.data[p] % 256 = ret[2 * p - 1]
                                /\ (result'.data[p] % 65536) \div 256 = ret[2 * p]
                  /\ (Len(ret) = 2 * self.pixels /\ op = "init")
                       => state' = "SpectrumWarm"

\* a returned spectrum is a spectrum the device sent, pixel by pixel
C4_EndToEnd ==
    (op = "spectrum" /\ pc = "idle" /\ err = NoError)
    => /\ result.kind = "spectrum"
       /\ \E scene \in Scenes : result.data = SceneSamples(scene)

\* C4: the byte read after the last packet decides the acquisition: if it
\* is not 0x69 the acquisition fails with 'Wrong sync byte' and returns
\* nothing; if it is 0x69 the packets, joined in read order, are decoded as
\* pixel_count little-endian signed 16 bit samples (a struct.error when they
\* do not hold 2 * pixel_count bytes).
C4_SyncByte == [](C4_EndToEnd) /\ [][C4_Step]_vars

\* spectrum() returned two samples, decoded as negative numbers
C4_Witness ==
    /\ op = "spectrum" /\ pc = "idle" /\ err = NoError
    /\ Len(result.data) = 2 /\ result.data[1] < 0 /\ result.data[2] = -254

\* the commands integration_time(time_us) writes
TimeCommands(time_us) ==
    (CASE time_us = None -> <<>>
       [] time_us = 1000 -> << <<2, 232, 3, 0, 0>> >>
       [] time_us = 100000 -> << <<2, 160, 134, 1, 0>> >>)
      \o << <<254>> >>
IsPrefix(a, b) == Len(a) <= Len(b) /\ a = SubSeq(b, 1, Len(a))

C5_Call ==
    op = "integration_time" =>
      /\ IsPrefix(sent, TimeCommands(arg))
      /\ Len(reads) <= 1
      /\ (pc = "idle" /\ err = NoError)
           => /\ sent = TimeCommands(arg)
              /\ Len(reads) = 1
              /\ result.kind = "integration_time"
              /\ result.value.micro
              /\ result.value = self.integration_time
              /\ faults = 0 => result.value.n = devIT

\* the value returned is the one of the status record the call read
C5_Step ==
    (op = "integration_time" /\ pc = "status_read"
        /\ ReadReturns(EPin0, EPin0_size) /\ Len(Head(epq[EPin0])) = 16)
    => LET st == Head(epq[EPin0]) IN
         /\ pc' = "idle" /\ err' = NoError
         /\ result'.value =
              [n |-> st[3] + 256 * st[4] + 65536 * st[5] + 16777216 * st[6],
               micro |-> TRUE]

\* C5: integration_time(v) writes SetIntegrationTime(v) once, before its
\* status query, when v is given and not at all otherwise, then writes one
\* QueryStatus and returns the integration time of the status record it
\* read, times 1e-6: the value the device holds, whatever was requested.
C5_IntegrationTime == [](C5_Call) /\ [][C5_Step]_vars

\* a value was requested, the device kept another one, and that one came back
C5_Witness ==
    /\ op = "integration_time" /\ pc = "idle" /\ err = NoError
    /\ arg = 100000 /\ devIT = 1000
    /\ result.value = [n |-> 1000, micro |-> TRUE]


\* C6: a driver is Ready only with a packet layout that satisfies
\* packet_count * packet_size == pixel_count * 2.
C6_LayoutRejected ==
    state = "Ready" => self.packet_N * self.packet_size = self.pixels * 2

\* what the step that reads the answer of QueryInformation must do
C7_Step ==
    (pc = "info_read" /\ ReadReturns(EPin0, EPin0_size)
        /\ Len(Head(epq[EPin0])) >= 2)
    => LET r == Head(epq[EPin0])
           accepted == r[1] = 5 /\ r[2] = Address % 255
           zeros == {k \in 3..Len(r) : r[k] = 0}
       IN /\ ~accepted
               => /\ err' = "OOError: Wrong answer"
                  /\ result' = NoResult
                  /\ pc' \in {"idle", "done"}
          /\ accepted => err' # "OOError: Wrong answer"
          /\ (accepted /\ zeros = {}) => err' = "ValueError"
          /\ (accepted /\ zeros # {} /\ op = "query_information")
               => /\ err' = NoError
                  /\ result'.kind = "information"
                  /\ Len(result'.text) + 3 \in zeros
                  /\ \A k \in 1..Len(result'.text) :
                        result'.text[k] = r[k + 2] /\ r[k + 2] # 0
          /\ (accepted /\ zeros # {} /\ op = "init")
               => err' \in {NoError, "ValueError"}

C8_ShortIsTransportError ==
    [][(pc = "status_read" /\ ReadReturns(EPin0, EPin0_size)
          /\ Len(Head(epq[EPin0])) < 16)
        => lastExc' = "USBError"]_vars

C9_Selected ==
    /\ self.EPspec # None
         => /\ self.EPspec = (IF devCfg.speed = 128 THEN EPin1 ELSE EPin0)
            /\ self.usb_speed = devCfg.speed
    /\ specEps \subseteq {self.EPspec}
    /\ specEps # {} => self.EPspec # None
    /\ \A k \in DOMAIN reads :
          \/ reads[k] = <<EPin0, EPin0_size>>
          \/ reads[k] = <<self.EPspec, self.packet_size>>
          \/ reads[k] = <<self.EPspec, 1>>
    /\ state \in {"EndpointSelected", "SpectrumWarm", "Calibrated", "Ready"}
         => self.EPspec # None

\* C9: the spectral endpoint is EPin1 exactly when the device reported
\* usb_speed 0x80 at initialization and EPin0 otherwise, it never changes
\* once set, and every read of an acquisition names it.
C9_Endpoint ==
    [](C9_Selected) /\ [][self.EPspec # None => self.EPspec' = self.EPspec]_vars

\* a high-speed device delivered a spectrum through EPin1
C9_Witness ==
    /\ state = "Ready" /\ op = "spectrum" /\ pc = "idle" /\ err = NoError
    /\ devCfg.speed = 128 /\ self.EPspec = EPin1 /\ specEps = {EPin1}

\* the calibration and layout fields of the object
Frame ==
    <<self.wl_factors, self.nl_factors, self.wl, self.pixels, self.EPspec,
      self.packet_N, self.packet_size, self.packet_func>>

\* C10: on a Ready driver no step of any call changes the wavelength or
\* nonlinearity coefficients, the axis, the pixel count, the spectral
\* endpoint or the packet layout, and wavelengths() returns the axis in one
\* step that writes nothing, reads nothing and leaves the device alone.
C10_Frame ==
    /\ [][state = "Ready" => Frame' = Frame]_vars
    /\ [][(op' = "wavelengths" /\ calls' = calls + 1)
            => /\ UNCHANGED <<envVars, self>>
               /\ sent' = <<>> /\ reads' = <<>> /\ pc' = "idle"
               /\ result' = [kind |-> "wavelengths", wl |-> self.wl]]_vars
    /\ [](state = "Ready"
            => /\ Len(self.wl) = self.pixels
               /\ Len(self.wl_factors) = 4 /\ Len(self.nl_factors) = 8
               /\ op = "wavelengths" => (sent = <<>> /\ reads = <<>>))

\* wavelengths() was the second call on the driver
C10_Witness ==
    /\ state = "Ready" /\ op = "wavelengths" /\ calls = 2
    /\ result = [kind |-> "wavelengths", wl |-> self.wl]
    /\ Len(self.wl) = 2 /\ faults = 1


\* the value of a number modulo m
RECURSIVE MagMod(_, _)
MagMod(a, m) == IF a = <<>> THEN 0 ELSE (a[1] + 10000 * MagMod(Tail(a), m)) % m
NumMod(x, m) == IF x.neg THEN (m - MagMod(x.mag, m)) % m ELSE MagMod(x.mag, m)
\* the number the calibration memory of the device holds at an address
DevCoefficient(address) == 10 * devCfg.image + (address % 3)
\* c0 + x (c1 + x (c2 + ... )) modulo m, with the nonlinearity coefficients
\* of the device: c_k is the number at address 6 + k
RECURSIVE HornerMod(_, _, _)
HornerMod(x, k, m) ==
    IF k = 8 THEN 0
    ELSE (DevCoefficient(6 + k) + (x % m) * HornerMod(x, k + 1, m)) % m
\* the same without a modulus, for small samples
RECURSIVE HornerInt(_, _)
HornerInt(x, k) ==
    IF k = 8 THEN 0 ELSE DevCoefficient(6 + k) + x * HornerInt(x, k + 1)
\* an integer as sign and decimal limbs (three limbs at most)
AsLimbs(n) ==
    LET a == IF n < 0 THEN 0 - n ELSE n
        l == <<a % 10000, (a \div 10000) % 10000, a \div 100000000>>
    IN [neg |-> n < 0,
        mag |-> IF l[3] # 0 THEN l ELSE IF l[2] # 0 THEN <<l[1], l[2]>>
                ELSE IF l[1] # 0 THEN <<l[1]>> ELSE <<>>]

\* C11: spectrum(raw=true) returns, for every pixel, the sample decode
\* function of the 16 bit sample the device sent and nothing that depends
\* on the nonlinearity coefficients; spectrum(raw=false) returns, for every
\* pixel, that sample divided by c0 + c1 s + ... + c7 s^7 with the eight
\* nonlinearity coefficients read at addresses 6..13; both have
\* pixel_count entries.
C11_Spectrum ==
    (op = "spectrum" /\ pc = "idle" /\ err = NoError)
    => /\ result.kind = "spectrum"
       /\ result.raw = (arg = 1)
       /\ DOMAIN result.value = 1..devCfg.pixels
       /\ self.pixels = devCfg.pixels
       /\ \E scene \in Scenes :
            \A p \in 1..devCfg.pixels :
              LET s == PacketFunc(self.packet_func, Signed16(p + 256 * scene))
              IN IF result.raw
                 THEN result.value[p] = s
                 ELSE /\ result.value[p].num = s
                      /\ NumMod(result.value[p].den, 9973)
                            = HornerMod(s, 0, 9973)
                      /\ NumMod(result.value[p].den, 7919)
                            = HornerMod(s, 0, 7919)
                      /\ (s \in -3..3)
                            => result.value[p].den = AsLimbs(HornerInt(s, 0))

\* spectrum(raw=false) returned the quotient of a negative sample by a
\* polynomial value of more than twelve decimal digits
C11_Witness ==
    /\ op = "spectrum" /\ pc = "idle" /\ err = NoError /\ ~result.raw
    /\ result.value[1].num = -255
    /\ Len(result.value[1].den.mag) >= 4
    /\ result.value[1].den.neg
    /\ devCfg.pixels = 2 /\ devCfg.image = 1


\* the command a transfer on an input endpoint answers, by its length: a
\* status record, or a packet or sync byte of a spectrum
AnswersTo(transfer) ==
    IF Len(transfer) = 16 THEN "QueryStatus" ELSE "RequestSpectrum"

\* with the mutex every read returns an answer to a command of the
\* operation that reads
C12_Step ==
    useMutex =>
      /\ (pc = "status_read" /\ ReadReturns(EPin0, EPin0_size))
            => /\ AnswersTo(Head(epq[EPin0])) = "QueryStatus"
               /\ op = "integration_time" /\ caller = 2
      /\ (pc = "spec_read" /\ ReadReturns(self.EPspec, self.packet_size))
            => /\ AnswersTo(Head(epq[self.EPspec])) = "RequestSpectrum"
               /\ op = "spectrum" /\ caller = 1
      /\ (pc = "sync_read" /\ ReadReturns(self.EPspec, 1))
            => /\ Head(epq[self.EPspec]) = <<105>>
               /\ op = "spectrum" /\ caller = 1

\* with the mutex the other caller is never inside an operation, an
\* operation never fails and never leaves bytes behind
C12_Serial ==
    useMutex =>
      /\ parked.pc = "idle"
      /\ err = NoError /\ parked.err = NoError
      /\ pc = "idle" => epq = [ep \in {EPin0, EPin1} |-> <<>>]

C13_NotFound ==
    (plugged = 0 /\ state = "Failed" /\ err # "OOError: Unkown model")
    => err = "OOError: No spectrometer found"


\* the devices on the bus
Plugged == {bus[k] : k \in DOMAIN bus}

\* what get_spectrometer leaves behind when it returns or raises
C14_Step ==
    (op = "get_spectrometer" /\ pc # "idle" /\ pc' = "idle") =>
      /\ err' = NoError =>
           /\ connected' \cap opened' = {result'.serial}
           /\ held' = held \cup {result'.serial}
           /\ result'.serial \notin held
      /\ err' \in {"OOError: Spectrometer is not available",
                   "OOError: no available spectrometers found"} =>
           /\ connected' \cap opened' = {}
           /\ held' = held

\* the result of a finished get_spectrometer
C14_Returned ==
    (op = "get_spectrometer" /\ pc = "idle") =>
      /\ err = NoError =>
           /\ result.kind = "spectrometer"
           /\ arg # None => result.serial = arg
           /\ result.serial \in opened
           /\ disposed = opened \ {result.serial}
      /\ err = "OOError: Spectrometer is not available" =>
           /\ arg # None /\ arg \notin opened /\ opened # {}
           /\ disposed = opened
           /\ result = NoResult
      /\ err = "OOError: no available spectrometers found" =>
           opened = {} /\ disposed = {} /\ result = NoResult
      /\ (err # NoError /\ lastExc \in {"OOError: Spectrometer is not available",
                                        "OOError: no available spectrometers found"})
           => err = lastExc

C15_Returned ==
    /\ (op = "get_available_spectrometers" /\ pc = "idle") =>
         /\ err # "USBError"
         /\ err = NoError =>
              /\ result.kind = "dict"
              /\ result.keys = opened
              /\ result.keys \subseteq Plugged
              /\ disposed = {}
    /\ (op = "list_available_spectrometers" /\ pc = "idle" /\ err = NoError) =>
         /\ result.keys = opened
         /\ disposed = opened
         /\ connected \cap opened = {}

\* a device that is connected, or whose opening raises a USB error, is
\* passed over and the loop goes on; the dict returned holds no device that
\* was connected when the call began and, when no opening failed, every
\* other device of the bus
C15_Step ==
    /\ (pc = "enumerate" /\ i <= Len(bus) /\ i' = i + 1) =>
         /\ pc' = "enumerate"
         /\ bus[i] \in connected => spectrometers' = spectrometers
         /\ spectrometers' \subseteq spectrometers \cup {bus[i]}
    /\ (pc = "enumerate" /\ i <= Len(bus) /\ lastExc' = "USBError") =>
         i' = i + 1 /\ err' = NoError
    /\ (pc = "enumerate" /\ i > Len(bus) /\ pc' = "idle") =>
         /\ result'.keys \cap held = {}
         /\ held' = held \cup result'.keys
         /\ result'.keys \subseteq connected'
         /\ result'.keys \subseteq Plugged \ (connected \ opened)
         /\ faults = 0 => result'.keys = Plugged \ (connected \ opened)
         /\ Plugged \subseteq held => result'.keys = {}

\* C15: get_available_spectrometers returns only devices that are plugged
\* in and not connected; a device whose opening raises a USB error is
\* passed over and the others are still returned, so a call made while
\* the objects of an earlier call are held returns an empty dict and a
\* call made after they were disposed of returns them again.
C15_Available == [](C15_Returned) /\ [][C15_Step]_vars

\* three devices were returned by a first call and are held; a second call
\* returned the empty dict
C15_Witness ==
    /\ op = "get_available_spectrometers" /\ pc = "idle" /\ err = NoError
    /\ calls = 2 /\ held = {1, 2, 3} /\ connected = {1, 2, 3}
    /\ result.keys = {} /\ faults = 0


\* the commands of a construction whose status loop makes k attempts
InitPlan(k) ==
    << <<1>> >> \o [j \in 1..k |-> <<254>>]
      \o << <<2, 232, 3, 0, 0>>, <<254>>, <<9>> >>
      \o << <<5, 1>>, <<5, 2>>, <<5, 3>>, <<5, 4>> >>
      \o << <<5, 6>>, <<5, 7>>, <<5, 8>>, <<5, 9>>, <<5, 10>>, <<5, 11>>,
            <<5, 12>>, <<5, 13>> >>
\* the states of the construction, in order
Walk ==
    <<"Disconnected", "Connected", "StatusKnown", "EndpointSelected",
      "SpectrumWarm", "Calibrated", "Ready">>
Rank(st) == CHOOSE k \in DOMAIN Walk : Walk[k] = st

\* the commands written so far, for each state of the construction
C16_Progress ==
    op = "init" =>
      /\ \E k \in 1..10 : IsPrefix(sent, InitPlan(k))
      /\ state = "Disconnected" => sent = <<>>
      /\ state = "Connected" => Len(sent) <= 11
      /\ state = "StatusKnown" => sent = SubSeq(InitPlan(10), 1, Len(sent))
      /\ state \in {"StatusKnown", "EndpointSelected", "SpectrumWarm",
                    "Calibrated", "Ready"}
           => LET k == LoopTries IN
                /\ k \in 1..10
                /\ IsPrefix(sent, InitPlan(k))
                /\ state = "StatusKnown" => Len(sent) = k + 1
                /\ state = "EndpointSelected"
                     => Len(sent) \in (k + 1)..(k + 4)
                /\ state = "SpectrumWarm"
                     => Len(sent) \in (k + 4)..(k + 16)
                /\ state \in {"Calibrated", "Ready"}
                     => /\ sent = InitPlan(k)
                        /\ SubSeq(reads, Len(reads) - 12 - self.packet_N,
                                  Len(reads))
                             = [j \in 1..self.packet_N |->
                                   <<self.EPspec, self.packet_size>>]
                               \o << <<self.EPspec, 1>> >>
                               \o [j \in 1..12 |-> <<EPin0, EPin0_size>>]
      /\ \A k \in DOMAIN sent : sent[k] # <<5, 5>>
      /\ state = "Failed" <=> err # NoError

\* a step moves the construction to the next state of the walk or ends it
\* in failure; after a failure nothing more is written
C16_Step ==
    /\ state' # state
         => \/ (state \in {Walk[k] : k \in 1..6} /\ state' = "Failed")
            \/ (state \in {Walk[k] : k \in 1..6}
                  /\ state' = Walk[Rank(state) + 1])
    /\ state = "Failed" => (state' = "Failed" /\ sent' = sent /\ reads' = reads)

\* C16: the construction goes through Disconnected, Connected, StatusKnown,
\* EndpointSelected, SpectrumWarm, Calibrated, Ready one after the other;
\* it writes Initialize, the status queries of the retry loop,
\* SetIntegrationTime(1000) and a status query, one RequestSpectrum, then
\* QueryInformation at 1, 2, 3, 4, 6, 7, ..., 13 and never at 5; a failed
\* step ends it, nothing more is written and Ready is not reached.
C16_Construction == [](C16_Progress) /\ [][C16_Step]_vars

\* a construction whose third status query was the first one answered
C16_Witness ==
    /\ state = "Ready" /\ op = "init" /\ LoopTries = 3
    /\ sent = InitPlan(3) /\ Len(absorbed) = 2


\* the reads of the running operation that belong to an acquisition: the
\* status and information reads ask for EPin0_size bytes, these do not
IsAcquisitionRead(r) == r[2] # EPin0_size
AcquisitionReads == SelectSeq(reads, IsAcquisitionRead)
\* the reads of one acquisition
AcquisitionPlan ==
    [j \in 1..self.packet_N |-> <<self.EPspec, self.packet_size>>]
      \o << <<self.EPspec, 1>> >>

\* where an acquisition stands, by the transfers it has made
C17_Order ==
    /\ op \in {"init", "spectrum"} =>
         /\ Count(sent, IsRequestSpectrum) <= 1
         /\ AcquisitionReads # <<>> => Count(sent, IsRequestSpectrum) = 1
         /\ self.packet_N # None => IsPrefix(AcquisitionReads, AcquisitionPlan)
         /\ err = "OOError: Wrong sync byte" => AcquisitionReads = AcquisitionPlan
    /\ pc = "spec_read" =>
         /\ sent[Len(sent)] = <<9>>
         /\ Len(buf) < self.packet_N
         /\ AcquisitionReads = SubSeq(AcquisitionPlan, 1, Len(buf))
    /\ pc = "sync_read" =>
         /\ sent[Len(sent)] = <<9>>
         /\ Len(buf) = self.packet_N
         /\ AcquisitionReads = SubSeq(AcquisitionPlan, 1, self.packet_N)
    /\ op = "spectrum" =>
         /\ IsPrefix(sent, << <<9>> >>)
         /\ reads = AcquisitionReads
         /\ (pc = "idle" /\ err = NoError)
              => /\ sent = << <<9>> >>
                 /\ reads = AcquisitionPlan
                 /\ result.kind = "spectrum"
         /\ result.kind = "spectrum" => reads = AcquisitionPlan

\* byte q of the packets of buf taken in the order they were read
InReadOrder(q) ==
    buf[((q - 1) \div self.packet_size) + 1][((q - 1) % self.packet_size) + 1]

\* a packet read appends the packet; the sync read comes after the last
\* packet, and only a sync byte of 0x69 lets the samples be decoded, from
\* the packets in read order
C17_Step ==
    /\ (pc = "spec_read" /\ ReadReturns(self.EPspec, self.packet_size))
         => /\ buf' = Append(buf, Head(epq[self.EPspec]))
            /\ pc' = IF Len(buf') = self.packet_N THEN "sync_read"
                                                  ELSE "spec_read"
            /\ sent' = sent /\ result' = result
    /\ (pc = "spec_send" /\ pc' = "spec_read")
         => sent' = Append(sent, <<9>>) /\ reads' = reads /\ buf' = <<>>
    /\ (op = "spectrum" /\ result.kind # "spectrum"
          /\ result'.kind = "spectrum")
         => /\ pc = "sync_read"
            /\ Head(epq[self.EPspec]) = <<105>>
            /\ Len(buf) = self.packet_N
            /\ \A p \in 1..self.pixels :
                 result'.data[p]
                   = Signed16(InReadOrder(2 * p - 1) + 256 * InReadOrder(2 * p))
    /\ (pc = "sync_read" /\ state' = "SpectrumWarm")
         => Head(epq[self.EPspec]) = <<105>> /\ Len(buf) = self.packet_N

\* C17: an acquisition writes RequestSpectrum once, then reads packet_count
\* times packet_size bytes from the spectral endpoint, then reads 1 byte,
\* with no other transfer in between; the packets are joined in the order
\* they were read, the sync byte is checked after the last packet and the
\* samples are decoded only when it was 0x69.
C17_Acquisition == [](C17_Order) /\ [][C17_Step]_vars

\* spectrum() read two packets of two bytes and the sync byte from EPin0
C17_Witness ==
    /\ op = "spectrum" /\ pc = "idle" /\ err = NoError
    /\ sent = << <<9>> >>
    /\ reads = << <<EPin0, 2>>, <<EPin0, 2>>, <<EPin0, 1>> >>
    /\ result.data[2] = 258


\* the acquisition has sent its request and computes its pre-read wait
ComputesWait == pc = "spec_send" /\ pc' = "spec_read"

\* the integration time the wait used is a number of seconds
WaitInSeconds == slept.used.micro

\* C18: whenever a spectrum acquisition computes its pre-read wait, the
\* integration time it uses is expressed in seconds and equals the
\* integration time the device currently holds, after any sequence of
\* integration_time() and spectrum() calls, failed ones included
C18_WaitCurrent ==
    [][ComputesWait => (WaitInSeconds' /\ slept'.used.n = devIT')]_vars

\* the endpoint the driver reads next after the command it is about to write
NextRead == IF pc = "spec_send" THEN self.EPspec ELSE EPin0

\* the step writes a command
WritesCommand == sent' # sent /\ caller' = caller

\* the step reads a transfer of the size of a status record and decodes it
DecodesStatus ==
    /\ pc = "status_read"
    /\ epq[EPin0] # <<>>
    /\ Len(Head(epq[EPin0])) = StatusSize
    /\ epq'[EPin0] = Tail(epq[EPin0])

\* C19: with a single caller the pairing of request and response holds
\* across failures: the driver never writes a new command while response
\* bytes of an earlier command are still unread on the endpoint it will
\* read next, so every status record it decodes is the answer of the
\* device to the command sent in that same call
C19_Pairing ==
    [][/\ WritesCommand => epq[NextRead] = <<>>
       /\ DecodesStatus => Head(epq[EPin0]) = DevStatus]_vars

=============================================================================
